---- MODULE Spec2Model ----
(***************************************************************************)
(* A model of main.py of gamma_local: the generation ledger                *)
(* (generation_records.json), the Gamma generation client                  *)
(* (generate_presentation, check_generation_status, wait_for_completion),  *)
(* the export chain (download_via_api, download_via_browser, download_pdf) *)
(* and the orchestrator process_file.                                      *)
(*                                                                         *)
(* The specifications share the variables:                                 *)
(*   Spec         sequences of process_file runs                           *)
(*   SpecLedger   sequences of calls of the ledger functions               *)
(*   SpecWait     calls of wait_for_completion                             *)
(*   SpecWaitLive SpecWait with the call running until it returns          *)
(*   SpecApi      calls of download_via_api                                *)
(*   SpecPayload  the text and the payload process_file submits            *)
(*   SpecBrowser  calls of download_via_browser                            *)
(*   SpecBrowserLive  SpecBrowser with the call running until it returns   *)
(***************************************************************************)
EXTENDS Integers, Sequences, FiniteSets, TLC

VARIABLES
    cfg,          \* module globals: GAMMA_API_KEY is set, SELENIUM_AVAILABLE
    ledger,       \* the file generation_records.json: [state, records]
    outputs,      \* the files that exist under OUTPUT_DIR
    now,          \* datetime.now(), as a logical timestamp
    clock,        \* time.time()
    jobs,         \* history: generation ids the remote service has handed out, per input content
    job,          \* the remote job being polled: its status answers and its payload
    pc,           \* position of the running call
    run,          \* locals of process_file
    w,            \* locals of wait_for_completion
    a,            \* locals of download_via_api
    d,            \* locals of download_pdf, and the export requests it has caused
    mem,          \* SpecLedger: the mapping last returned by load_records
    sub,          \* SpecPayload: the extracted text, its image URLs, the payload sent
    ret,          \* the value the last finished call returned
    runs,         \* number of calls started
    submitCalls,  \* history: calls of generate_presentation per input content
    completedSeen, \* history: generation ids a status poll observed as completed
    persisted,    \* history: contents for which a run saved a record with a gamma_url
    forcedSeen,   \* history: some run was started with force_regenerate
    b             \* SpecBrowser: locals of download_via_browser and the download directory

vars == <<cfg, ledger, outputs, now, clock, jobs, job, pc, run, w, a, d, mem, sub,
          ret, runs, submitCalls, completedSeen, persisted, forcedSeen, b>>

(***************************************************************************)
(* Bounds of the model.                                                    *)
(***************************************************************************)
MaxRuns == 2         \* process_file runs in one behaviour
MaxOps == 3          \* ledger calls in one behaviour of SpecLedger
MaxIds == 2          \* generation ids passed to the ledger functions in SpecLedger
MaxPollTime == 1     \* longest time one status request takes (SpecWait)
MaxWaitArg == 10     \* largest max_wait_time passed to wait_for_completion (SpecWait)
MaxUrls == 21          \* image URLs in a document: one more than image_urls[:20] keeps
UrlLen == 30           \* characters of a URL
ShortTextLen == 100    \* characters of a short run of plain text
LongTextLen == 400000  \* characters of a long run of plain text
MaxIntervalArg == 5  \* largest check_interval passed to wait_for_completion (SpecWait)

(***************************************************************************)
(* Program constants.                                                      *)
(***************************************************************************)
DEFAULT_MAX_WAIT == 300
DEFAULT_CHECK_INTERVAL == 5
TEXT_LIMIT == 400000    \* len(text_content) > 400000
IMAGE_CAP == 20         \* image_urls[:20]
HEADER_LEN == 14        \* len("\n\n---\n\n# ....\n"), the first line of image_section

(***************************************************************************)
(* Input files.  Two files hold the same bytes, one holds other bytes, one *)
(* path does not exist.                                                    *)
(***************************************************************************)
Paths == {"a.docx", "b.docx", "c.pdf"}
MissingPath == "missing.docx"
Contents == {"X", "Y"}

ContentOf(p) == IF p = "c.pdf" THEN "Y" ELSE "X"

PathExists(p) == p \in Paths

Resolve(p) ==
    CASE p = "a.docx" -> "/work/a.docx"
      [] p = "b.docx" -> "/work/b.docx"
      [] p = "c.pdf" -> "/work/c.pdf"
      [] OTHER -> "/work/missing.docx"

OutputPathOf(p) ==
    CASE p = "a.docx" -> "output/a_gamma_presentation.pdf"
      [] p = "b.docx" -> "output/b_gamma_presentation.pdf"
      [] p = "c.pdf" -> "output/c_gamma_presentation.pdf"
      [] OTHER -> "output/missing_gamma_presentation.pdf"

NoHash == ""

Md5(c) == IF c = "X" THEN "md5-X" ELSE "md5-Y"

\* get_file_hash: the digest of the bytes, None when reading raises
get_file_hash(p, readOK) == IF readOK THEN Md5(ContentOf(p)) ELSE NoHash

(***************************************************************************)
(* The ledger.  A mapping is a Python dict keyed by generation id, kept in *)
(* insertion order: a sequence of records with distinct generation_id.     *)
(***************************************************************************)
NoRecord ==
    [file_path |-> "", file_name |-> "", file_hash |-> "", generation_id |-> 0,
     gamma_url |-> "", status |-> "", created_at |-> 0, updated_at |-> 0,
     pdf_downloaded |-> "absent", pdf_path |-> ""]

IdsOf(records) == {records[i].generation_id : i \in 1..Len(records)}

IndexOf(records, gid) == CHOOSE i \in 1..Len(records) : records[i].generation_id = gid

\* records[generation_id] = record
DictPut(records, gid, rec) ==
    IF gid \in IdsOf(records)
    THEN [records EXCEPT ![IndexOf(records, gid)] = rec]
    ELSE Append(records, rec)

SaveOutcomes == {"ok", "open_failed", "dump_failed"}

\* load_records: the stored mapping; {} when the file is absent, or when
\* opening or parsing it raises
load_records(file, readOK) ==
    IF file.state = "valid" /\ readOK THEN file.records ELSE <<>>

\* the members json.dump writes for one record: a name, a JSON type, the value.
\* pdf_downloaded and pdf_path are members only once update() has set them.
JsonMembers(rec) ==
    LET always == <<"file_path", "file_name", "file_hash", "generation_id", "gamma_url",
                    "status", "created_at", "updated_at">>
        strings == [k \in 1..Len(always) |->
                      [name |-> always[k], type |-> "string", value |-> rec[always[k]]]]
        flag == IF rec.pdf_downloaded = "absent" THEN <<>>
                ELSE <<[name |-> "pdf_downloaded", type |-> rec.pdf_downloaded,
                        value |-> ""]>>
        path == IF rec.pdf_path = "" THEN <<>>
                ELSE <<[name |-> "pdf_path", type |-> "string", value |-> rec.pdf_path]>>
    IN  strings \o flag \o path

\* json.dump(records): one object per key, in the order of the dict
json_dump(records) ==
    [i \in 1..Len(records) |->
        [key |-> records[i].generation_id, members |-> JsonMembers(records[i])]]

\* the record json.load builds from the members of one object
JsonRecord(members) ==
    [f \in DOMAIN NoRecord |->
        IF \E k \in 1..Len(members) : members[k].name = f
        THEN LET m == members[CHOOSE k \in 1..Len(members) : members[k].name = f]
             IN  IF m.type = "string" THEN m.value ELSE m.type
        ELSE NoRecord[f]]

RECURSIVE JsonObjects(_, _)
\* json.load(f): a later object with the same key replaces an earlier one
JsonObjects(doc, acc) ==
    IF doc = <<>> THEN acc
    ELSE JsonObjects(Tail(doc), DictPut(acc, Head(doc).key, JsonRecord(Head(doc).members)))

json_load(doc) == JsonObjects(doc, <<>>)

\* save_records with the file opened for appending instead of writing
save_records_fileAppend(file, records, outcome) ==
    CASE outcome = "ok" ->
            IF file.state = "absent"
            THEN [state |-> "valid", records |-> json_load(json_dump(records))]
            ELSE [state |-> "corrupt", records |-> <<>>]
      [] outcome = "open_failed" -> file
      [] OTHER -> [state |-> "corrupt", records |-> <<>>]

\* save_records: open(..., 'w') truncates the file, json.dump then writes it.
\* The file after the call; records holds the mapping json.load reads from it.
save_records_file(file, records, outcome) ==
    CASE outcome = "ok" -> [state |-> "valid", records |-> json_load(json_dump(records))]
      [] outcome = "open_failed" -> file
      [] OTHER -> [state |-> "corrupt", records |-> <<>>]

\* save_records: the value returned
save_records_ret(outcome) == outcome = "ok"

\* the record add_generation_record builds
NewRecord(p, hash, gid, url, status, t) ==
    [file_path |-> Resolve(p), file_name |-> p, file_hash |-> hash,
     generation_id |-> gid, gamma_url |-> url, status |-> status,
     created_at |-> t, updated_at |-> t,
     pdf_downloaded |-> "absent", pdf_path |-> ""]

\* add_generation_record: the file after the call
add_generation_record_file(file, p, gid, url, status, t, hashOK, readOK, outcome) ==
    LET hash == get_file_hash(p, hashOK)
        records == load_records(file, readOK)
    IN  IF hash = NoHash
        THEN file
        ELSE save_records_file(file,
                 DictPut(records, gid, NewRecord(p, hash, gid, url, status, t)), outcome)

\* add_generation_record: the value returned
add_generation_record_ret(p, hashOK, outcome) ==
    IF get_file_hash(p, hashOK) = NoHash THEN FALSE ELSE save_records_ret(outcome)

\* UpdateFields with the record replaced by the given fields instead of merged
UpdateFieldsReplace(rec, kwargs) ==
    [f \in DOMAIN rec |->
        IF f \in DOMAIN kwargs THEN kwargs[f]
        ELSE IF f = "generation_id" THEN rec[f] ELSE NoRecord[f]]

\* dict.update(kwargs) on one record; kwargs is a function from field names to values
UpdateFields(rec, kwargs) ==
    [f \in DOMAIN rec |-> IF f \in DOMAIN kwargs THEN kwargs[f] ELSE rec[f]]

\* update_generation_record: the file after the call
update_generation_record_file(file, gid, kwargs, t, readOK, outcome) ==
    LET records == load_records(file, readOK)
    IN  IF gid \in IdsOf(records)
        THEN LET i == IndexOf(records, gid)
                 merged == [UpdateFields(records[i], kwargs) EXCEPT !.updated_at = t]
             IN  save_records_file(file, [records EXCEPT ![i] = merged], outcome)
        ELSE file

\* update_generation_record: the value returned
update_generation_record_ret(file, gid, readOK, outcome) ==
    IF gid \in IdsOf(load_records(file, readOK)) THEN save_records_ret(outcome) ELSE FALSE

RECURSIVE FirstMatch(_, _, _, _)
\* the for loop of check_existing_generation, from index i
FirstMatch(records, i, pathStr, hash) ==
    IF i > Len(records) THEN [exists |-> FALSE, record |-> NoRecord]
    ELSE IF records[i].file_path = pathStr \/ records[i].file_hash = hash
         THEN [exists |-> TRUE, record |-> records[i]]
         ELSE FirstMatch(records, i + 1, pathStr, hash)

\* check_existing_generation: (exists, record)
check_existing_generation(file, p, hashOK, readOK) ==
    LET hash == get_file_hash(p, hashOK)
    IN  IF hash = NoHash
        THEN [exists |-> FALSE, record |-> NoRecord]
        ELSE FirstMatch(load_records(file, readOK), 1, Resolve(p), hash)

(***************************************************************************)
(* The remote generation service.  A job answers its k-th status request   *)
(* with the k-th element of its script, and with the last one after that.  *)
(*   pending, processing, completed, failed: 200 with that status          *)
(*   unknown:    200 with no status field, or one the client does not know *)
(*   null_status: a 200 answer whose body holds "status": null             *)
(*   http_error: an answer whose status code is not 200                    *)
(*   exception:  requests.get or response.json raises                      *)
(***************************************************************************)
Answers == {"pending", "processing", "completed", "failed", "unknown", "null_status",
            "http_error", "exception"}

UrlDoc == "https://gamma.app/docs/d1"
UrlNoDoc == "https://gamma.app/p/x1"

\* the artifact location fields of a status answer's body
Bodies ==
    {[gammaUrl |-> UrlDoc, url |-> ""], [gammaUrl |-> "", url |-> UrlNoDoc],
     [gammaUrl |-> UrlNoDoc, url |-> UrlDoc], [gammaUrl |-> "", url |-> ""]}

\* Python's None for a result
NoneResult == [status |-> "None", gammaUrl |-> "", url |-> ""]

AnswerAt(script, k) == IF k <= Len(script) THEN script[k] ELSE script[Len(script)]

\* check_generation_status: (status, result) for an answer that did not raise
check_generation_status(answer, body) ==
    IF answer = "http_error"
    THEN [status |-> "None", result |-> NoneResult]
    ELSE IF answer = "null_status"
    THEN [status |-> "None",
          result |-> [status |-> "None", gammaUrl |-> body.gammaUrl, url |-> body.url]]
    ELSE [status |-> answer,
          result |-> [status |-> answer, gammaUrl |-> body.gammaUrl, url |-> body.url]]

\* the loop test of wait_for_completion
LoopCondition(t, start, maxWait) == t - start < maxWait

\* StatusStep with an unrecognized status taken as a failure of the job
StatusStepUnknownFails(status, result, interval) ==
    CASE status = "None" -> [do |-> "return", success |-> FALSE, result |-> NoneResult, sleep |-> 0]
      [] status = "completed" -> [do |-> "return", success |-> TRUE, result |-> result, sleep |-> 0]
      [] status \in {"pending", "processing"} ->
            [do |-> "sleep", success |-> FALSE, result |-> NoneResult, sleep |-> interval]
      [] OTHER -> [do |-> "return", success |-> FALSE, result |-> result, sleep |-> 0]

\* StatusStep with the payload of a failed job dropped
StatusStepFailedNone(status, result, interval) ==
    CASE status = "completed" -> [do |-> "return", success |-> TRUE, result |-> result, sleep |-> 0]
      [] status \in {"None", "failed"} ->
            [do |-> "return", success |-> FALSE, result |-> NoneResult, sleep |-> 0]
      [] OTHER -> [do |-> "sleep", success |-> FALSE, result |-> NoneResult, sleep |-> interval]

\* StatusStep with no sleep after an unrecognized status
StatusStepNoSleepUnknown(status, result, interval) ==
    CASE status = "None" -> [do |-> "return", success |-> FALSE, result |-> NoneResult, sleep |-> 0]
      [] status = "completed" -> [do |-> "return", success |-> TRUE, result |-> result, sleep |-> 0]
      [] status = "failed" -> [do |-> "return", success |-> FALSE, result |-> result, sleep |-> 0]
      [] status \in {"pending", "processing"} ->
            [do |-> "sleep", success |-> FALSE, result |-> NoneResult, sleep |-> interval]
      [] OTHER -> [do |-> "sleep", success |-> FALSE, result |-> NoneResult, sleep |-> 0]

\* StatusStep with every job the service knows taken as done
StatusStepProcessingDone(status, result, interval) ==
    CASE status = "None" -> [do |-> "return", success |-> FALSE, result |-> NoneResult, sleep |-> 0]
      [] status \in {"completed", "pending", "processing"} ->
            [do |-> "return", success |-> TRUE, result |-> result, sleep |-> 0]
      [] status = "failed" -> [do |-> "return", success |-> FALSE, result |-> result, sleep |-> 0]
      [] OTHER -> [do |-> "sleep", success |-> FALSE, result |-> NoneResult, sleep |-> interval]

\* what wait_for_completion does with a status:
\*   "return" with (success, result), or "sleep" for some time
StatusStep(status, result, interval) ==
    CASE status = "None" -> [do |-> "return", success |-> FALSE, result |-> NoneResult, sleep |-> 0]
      [] status = "completed" -> [do |-> "return", success |-> TRUE, result |-> result, sleep |-> 0]
      [] status = "failed" -> [do |-> "return", success |-> FALSE, result |-> result, sleep |-> 0]
      [] status \in {"pending", "processing"} ->
            [do |-> "sleep", success |-> FALSE, result |-> NoneResult, sleep |-> interval]
      [] OTHER -> [do |-> "sleep", success |-> FALSE, result |-> NoneResult, sleep |-> interval]

\* locals of wait_for_completion before its first loop test
WaitLocals(gid, maxWait, interval, t) ==
    [gid |-> gid, maxWait |-> maxWait, interval |-> interval, start |-> t,
     polls |-> 0, pollAt |-> 0, prevPollAt |-> 0, status |-> "", prevStatus |-> "",
     pollTime |-> 0, success |-> FALSE, result |-> NoneResult, raised |-> FALSE,
     timedOut |-> FALSE]

NoWait == WaitLocals(0, 0, 0, 0)

\* one pass of the loop: the test holds and check_generation_status is called;
\* the request takes dur
WaitPoll(dur, body) ==
    /\ pc = "w_loop"
    /\ LoopCondition(clock, w.start, w.maxWait)
    /\ LET answer == AnswerAt(job.script, w.polls + 1)
           polled == [w EXCEPT !.polls = @ + 1, !.prevPollAt = w.pollAt, !.pollAt = clock,
                               !.prevStatus = w.status, !.pollTime = @ + dur]
       IN  /\ clock' = clock + dur
           /\ IF ~cfg.key \/ answer = "exception"
              THEN /\ w' = [polled EXCEPT !.status = "raised", !.raised = TRUE]
                   /\ pc' = "w_done"
                   /\ completedSeen' = completedSeen
              ELSE LET got == check_generation_status(answer, body)
                       step == StatusStep(got.status, got.result, w.interval)
                   IN  /\ w' = [polled EXCEPT !.status = got.status,
                                              !.success = step.success,
                                              !.result = step.result]
                       /\ pc' = IF step.do = "return" THEN "w_done" ELSE "w_sleep"
                       /\ completedSeen' = IF got.status = "completed"
                                           THEN completedSeen \cup {w.gid}
                                           ELSE completedSeen
    /\ UNCHANGED <<cfg, b, sub, ledger, outputs, now, jobs, job, run, a, d, mem, ret, runs,
                   submitCalls, persisted, forcedSeen>>

\* time.sleep(check_interval)
WaitSleep ==
    /\ pc = "w_sleep"
    /\ clock' = clock + StatusStep(w.status, w.result, w.interval).sleep
    /\ pc' = "w_loop"
    /\ UNCHANGED <<cfg, b, sub, completedSeen, ledger, outputs, now, jobs, job, run, w, a, d, mem, ret, runs,
                   submitCalls, persisted, forcedSeen>>

\* the loop test fails: return (False, None)
WaitTimeout ==
    /\ pc = "w_loop"
    /\ ~LoopCondition(clock, w.start, w.maxWait)
    /\ w' = [w EXCEPT !.success = FALSE, !.result = NoneResult, !.timedOut = TRUE]
    /\ pc' = "w_done"
    /\ UNCHANGED <<cfg, b, sub, completedSeen, ledger, outputs, now, clock, jobs, job, run, a, d, mem, ret, runs,
                   submitCalls, persisted, forcedSeen>>

(***************************************************************************)
(* The export chain.                                                       *)
(***************************************************************************)
Formats == {"pdf", "pptx"}

\* re.search(r'/docs/([^/?]+)', gamma_url): the document id, "" when none
DocIdOf(url) == IF url = UrlDoc THEN "d1" ELSE ""

\* export_urls of download_via_api, in list order
export_urls(url, gid, fmt) ==
    IF DocIdOf(url) # ""
    THEN << [base |-> "public-api/docs", doc |-> DocIdOf(url), gid |-> 0, fmt |-> fmt],
            [base |-> "public-api/generations", doc |-> "", gid |-> gid, fmt |-> fmt],
            [base |-> "gamma.app/api/export", doc |-> DocIdOf(url), gid |-> 0, fmt |-> fmt] >>
    ELSE << [base |-> "public-api/generations", doc |-> "", gid |-> gid, fmt |-> fmt] >>

PdfType == "application/pdf"
PptxType == "application/vnd.openxmlformats-officedocument.presentationml.presentation"
HtmlType == "text/html"

\* an answer to an export request: a status code, a Content-Type, the leading bytes
Responses ==
    [kind : {"http"}, code : {200}, ctype : {PdfType, PptxType, HtmlType},
     sig : {"%PDF", "PK", "<htm"}]
    \cup [kind : {"http"}, code : {202, 404}, ctype : {HtmlType}, sig : {"<htm"}]
    \cup [kind : {"exception"}, code : {0}, ctype : {""}, sig : {""}]

\* the answers drawn in Spec: a PDF, an HTML page, 202, and a raised exception
RunResponses ==
    {r \in Responses : /\ r.code # 404
                       /\ r.ctype # PptxType /\ r.sig # "PK"
                       /\ (r.ctype = PdfType) = (r.sig = "%PDF")}

NoResponse == [kind |-> "none", code |-> 0, ctype |-> "", sig |-> ""]

\* is_valid with every body of a 200 answer taken as the requested format
is_validAnyBody(fmt, resp) == fmt \in {"pdf", "pptx"}

\* is_valid of download_via_api
is_valid(fmt, resp) ==
    CASE fmt = "pdf" -> resp.ctype = PdfType \/ resp.sig = "%PDF"
      [] fmt = "pptx" -> resp.ctype = PptxType \/ resp.sig = "PK"
      [] OTHER -> FALSE

\* whether download_via_api starts writing the answer to output_path
Accepts(fmt, resp) == resp.kind = "http" /\ resp.code = 200 /\ is_valid(fmt, resp)

\* locals of download_via_api on entry
ApiLocals(url, gid, out, fmt) ==
    [out |-> out, fmt |-> fmt, urls |-> export_urls(url, gid, fmt), i |-> 1,
     last |-> NoResponse, success |-> FALSE]

NoApi == [out |-> "", fmt |-> "", urls |-> <<>>, i |-> 0, last |-> NoResponse,
          success |-> FALSE]

\* locals of download_pdf on entry; requested lists the export URLs requested so far
DlLocals(url, gid, out, useBrowser) ==
    [url |-> url, gid |-> gid, out |-> out, useBrowser |-> useBrowser,
     requested |-> <<>>, wrote |-> FALSE, browserCalls |-> 0, ret |-> FALSE]

NoDl == DlLocals("", 0, "", FALSE)

\* how writing an accepted answer to output_path ends:
\*   ok:            every chunk is written
\*   open_failed:   open(output_path, 'wb') raises, no file is created
\*   stream_failed: iter_content or f.write raises after the file was created
WriteOutcomes == {"ok", "open_failed", "stream_failed"}

\* one pass of the for loop of download_via_api: request export_urls[i]; an
\* exception raised while writing is caught like one raised by requests.get
ApiRequest(resp, written) ==
    /\ pc = "api"
    /\ a.i <= Len(a.urls)
    /\ Accepts(a.fmt, resp) \/ written = "ok"
    /\ IF Accepts(a.fmt, resp) /\ written = "ok"
       THEN /\ a' = [a EXCEPT !.last = resp, !.success = TRUE]
            /\ d' = [d EXCEPT !.requested = Append(@, a.urls[a.i]), !.wrote = TRUE]
            /\ outputs' = outputs \cup {a.out}
            /\ pc' = "api_done"
       ELSE /\ a' = [a EXCEPT !.last = resp, !.i = @ + 1]
            /\ d' = [d EXCEPT !.requested = Append(@, a.urls[a.i])]
            /\ outputs' = IF Accepts(a.fmt, resp) /\ written = "stream_failed"
                          THEN outputs \cup {a.out} ELSE outputs
            /\ pc' = IF a.i = Len(a.urls) THEN "api_done" ELSE "api"
    /\ UNCHANGED <<cfg, b, sub, completedSeen, ledger, now, clock, jobs, job, run, w, mem, ret, runs,
                   submitCalls, persisted, forcedSeen>>

\* how a call of download_via_browser ends:
\*   downloaded:   output_path is detected, or Chrome's download is renamed into it
\*   adopted:      a recent file another run left in OUTPUT_DIR is renamed into it
\*   timeout, start_failed, exception: (False, None)
BrowserOutcomes == {"downloaded", "adopted", "timeout", "start_failed", "exception"}

\* DownloadPdfAfterApi with the browser called only when use_browser is set
DownloadPdfAfterApiUseBrowserOnly ==
    /\ pc = "api_done"
    /\ a' = NoApi
    /\ IF a.success
       THEN /\ d' = [d EXCEPT !.ret = TRUE]
            /\ pc' = "dl_done"
       ELSE IF d.useBrowser /\ cfg.selenium
            THEN /\ d' = d
                 /\ pc' = "browser"
            ELSE /\ d' = [d EXCEPT !.ret = FALSE]
                 /\ pc' = "dl_done"
    /\ UNCHANGED <<cfg, b, sub, completedSeen, ledger, outputs, now, clock, jobs, job, run, w, mem, ret, runs,
                   submitCalls, persisted, forcedSeen>>

\* download_pdf after download_via_api returned (success, method)
DownloadPdfAfterApi ==
    /\ pc = "api_done"
    /\ a' = NoApi
    /\ IF a.success
       THEN /\ d' = [d EXCEPT !.ret = TRUE]
            /\ pc' = "dl_done"
       ELSE IF (d.useBrowser \/ cfg.selenium) /\ cfg.selenium
            THEN /\ d' = d
                 /\ pc' = "browser"
            ELSE /\ d' = [d EXCEPT !.ret = FALSE]
                 /\ pc' = "dl_done"
    /\ UNCHANGED <<cfg, b, sub, completedSeen, ledger, outputs, now, clock, jobs, job, run, w, mem, ret, runs,
                   submitCalls, persisted, forcedSeen>>

\* download_via_browser, called by download_pdf
DownloadViaBrowser(outcome) ==
    /\ pc = "browser"
    /\ outcome = "adopted" => outputs \ {d.out} # {}
    /\ d' = [d EXCEPT !.browserCalls = @ + 1,
                      !.ret = (outcome \in {"downloaded", "adopted"}),
                      !.wrote = @ \/ (outcome \in {"downloaded", "adopted"})]
    /\ CASE outcome = "downloaded" -> outputs' = outputs \cup {d.out}
         [] outcome = "adopted" ->
              \E latest_file \in outputs \ {d.out} :
                 outputs' = (outputs \ {latest_file}) \cup {d.out}
         [] OTHER -> outputs' = outputs
    /\ pc' = "dl_done"
    /\ UNCHANGED <<cfg, b, sub, completedSeen, ledger, now, clock, jobs, job, run, w, a, mem, ret, runs,
                   submitCalls, persisted, forcedSeen>>

(***************************************************************************)
(* download_via_browser.  The download directory is output_path.parent:    *)
(* the files the call can see, each with its st_mtime and st_size; pre     *)
(* records that the file was there before the call started.                *)
(***************************************************************************)
BROWSER_MAX_WAIT == 120   \* max_wait = 120
LOOP_SLEEP == 2           \* time.sleep(2); waited += 2
RECENT_AGE == 30          \* file_age < 30
PAGE_SLEEP == 8           \* time.sleep(8) after driver.get
MANUAL_SLEEP == 30        \* time.sleep(30) after a timeout in visible mode

BrowserNames ==
    {"out.pdf", "out.pptx", "old.pdf", "old.pptx", "new.pdf", "new.pptx",
     "new.crdownload"}

\* the suffix glob matches on
ExtOf(name) ==
    CASE name \in {"out.pdf", "old.pdf", "new.pdf"} -> "pdf"
      [] name \in {"out.pptx", "old.pptx", "new.pptx"} -> "pptx"
      [] OTHER -> "crdownload"

\* output_path, the file Chrome saves the export as, and its temporary file
TargetOf(fmt) == IF fmt = "pdf" THEN "out.pdf" ELSE "out.pptx"
ChromeFileOf(fmt) == IF fmt = "pdf" THEN "new.pdf" ELSE "new.pptx"
ChromeTempFile == "new.crdownload"

NoFile == [there |-> FALSE, mtime |-> 0, size |-> 0, pre |-> FALSE]
File(mtime, size, pre) == [there |-> TRUE, mtime |-> mtime, size |-> size, pre |-> pre]

\* output_path.parent.glob("*.<ext>")
Glob(dir, ext) == {n \in BrowserNames : dir[n].there /\ ExtOf(n) = ext}

\* max(all_files, key=lambda p: p.stat().st_mtime): a file no other is newer
\* than; among files of equal st_mtime the order of glob decides
LatestFiles(dir, files) == {n \in files : \A m \in files : dir[m].mtime <= dir[n].mtime}

\* locals of download_via_browser on entry
BrowserLocals(fmt, headless, dir) ==
    [fmt |-> fmt, headless |-> headless, dir |-> dir, started |-> FALSE,
     quit |-> FALSE, waited |-> 0, checks |-> 0, adopted |-> "",
     timedOut |-> FALSE, success |-> FALSE, method |-> "None"]

NoBrowser == BrowserLocals("", FALSE, [n \in BrowserNames |-> NoFile])

\* a return statement inside the inner try: the finally clause runs next
BrowserLeave(bb, success) ==
    /\ b' = [bb EXCEPT !.success = success,
                       !.method = IF success THEN "browser" ELSE "None"]
    /\ pc' = "b_finally"

\* the value download_via_browser returns
BrowserResult(success) == IF success THEN "(True, 'browser')" ELSE "(False, None)"

\* the entry of download_via_browser: the SELENIUM_AVAILABLE test and the start
\* of Chrome
BrowserStart(startOK) ==
    /\ pc = "b_entry"
    /\ IF ~cfg.selenium \/ ~startOK
       THEN /\ pc' = "returned"
            /\ ret' = [fn |-> "download_via_browser", value |-> BrowserResult(FALSE),
                       result |-> NoneResult]
            /\ b' = b
       ELSE /\ pc' = "b_page"
            /\ b' = [b EXCEPT !.started = TRUE]
            /\ ret' = ret
    /\ UNCHANGED <<cfg, sub, completedSeen, ledger, outputs, now, clock, jobs, job, run, w,
                   a, d, mem, runs, submitCalls, persisted, forcedSeen>>

\* driver.get and the clicks on the export controls; dur is the time they take
BrowserPage(ok, dur) ==
    /\ pc = "b_page"
    /\ clock' = clock + dur
    /\ IF ok
       THEN /\ b' = [b EXCEPT !.waited = 0]
            /\ pc' = "b_loop"
       ELSE BrowserLeave(b, FALSE)
    /\ UNCHANGED <<cfg, sub, completedSeen, ledger, outputs, now, jobs, job, run, w,
                   a, d, mem, ret, runs, submitCalls, persisted, forcedSeen>>

\* BrowserLoopCondition admitting waited = max_wait
BrowserLoopConditionInclusive(waited) == waited <= BROWSER_MAX_WAIT

\* while waited < max_wait
BrowserLoopCondition(waited) == waited < BROWSER_MAX_WAIT

\* one pass of the download-detection loop
BrowserCheck(renameOK) ==
    /\ pc = "b_loop"
    /\ BrowserLoopCondition(b.waited)
    /\ LET target == TargetOf(b.fmt)
           bb == [b EXCEPT !.checks = @ + 1]
           all_files == Glob(b.dir, b.fmt)
           sleep == /\ b' = [bb EXCEPT !.waited = @ + LOOP_SLEEP]
                    /\ clock' = clock + LOOP_SLEEP
                    /\ pc' = "b_loop"
       IN  IF b.dir[target].there /\ b.dir[target].size > 0
           THEN BrowserLeave(bb, TRUE) /\ clock' = clock
           ELSE IF all_files = {}
           THEN sleep
           ELSE \E latest_file \in LatestFiles(b.dir, all_files) :
                   IF clock - b.dir[latest_file].mtime < RECENT_AGE
                      /\ latest_file # target
                   THEN /\ clock' = clock
                        /\ IF renameOK
                           THEN BrowserLeave(
                                  [bb EXCEPT !.dir = [@ EXCEPT ![target] = b.dir[latest_file],
                                                               ![latest_file] = NoFile],
                                             !.adopted = latest_file], TRUE)
                           ELSE BrowserLeave(bb, FALSE)
                   ELSE sleep
    /\ UNCHANGED <<cfg, sub, completedSeen, ledger, outputs, now, jobs, job, run, w,
                   a, d, mem, ret, runs, submitCalls, persisted, forcedSeen>>

\* the loop ends without a detected file
BrowserTimeout ==
    /\ pc = "b_loop"
    /\ ~BrowserLoopCondition(b.waited)
    /\ clock' = IF b.headless THEN clock ELSE clock + MANUAL_SLEEP
    /\ BrowserLeave([b EXCEPT !.timedOut = TRUE], FALSE)
    /\ UNCHANGED <<cfg, sub, completedSeen, ledger, outputs, now, jobs, job, run, w,
                   a, d, mem, ret, runs, submitCalls, persisted, forcedSeen>>

\* the finally clause and the return
BrowserFinally ==
    /\ pc = "b_finally"
    /\ b' = [b EXCEPT !.quit = (b.headless \/ ~b.dir[TargetOf(b.fmt)].there)]
    /\ pc' = "returned"
    /\ ret' = [fn |-> "download_via_browser", value |-> BrowserResult(b.success),
               result |-> NoneResult]
    /\ UNCHANGED <<cfg, sub, completedSeen, ledger, outputs, now, clock, jobs, job, run, w,
                   a, d, mem, runs, submitCalls, persisted, forcedSeen>>

\* Chrome, or the person at the visible window, starts the download: the
\* temporary file appears in the download directory
ChromeStartsDownload ==
    /\ pc \in {"b_loop", "b_finally"}
    /\ ~b.dir[ChromeTempFile].there
    /\ ~b.dir[ChromeFileOf(b.fmt)].there
    /\ b.adopted = ""
    /\ b' = [b EXCEPT !.dir[ChromeTempFile] = File(clock, 1, FALSE)]
    /\ UNCHANGED <<cfg, sub, completedSeen, ledger, outputs, now, clock, jobs, job, run, w,
                   a, d, mem, ret, pc, runs, submitCalls, persisted, forcedSeen>>

\* Chrome finishes the download: the temporary file gets its final name
ChromeFinishesDownload ==
    /\ pc \in {"b_loop", "b_finally"}
    /\ b.dir[ChromeTempFile].there
    /\ b' = [b EXCEPT !.dir[ChromeTempFile] = NoFile,
                      !.dir[ChromeFileOf(b.fmt)] = File(clock, 1, FALSE)]
    /\ UNCHANGED <<cfg, sub, completedSeen, ledger, outputs, now, clock, jobs, job, run, w,
                   a, d, mem, ret, pc, runs, submitCalls, persisted, forcedSeen>>

(***************************************************************************)
(* generate_presentation.                                                  *)
(***************************************************************************)
\* an answer to POST /generations: a status code and whether the body holds a
\* generationId; or requests.post raises
SubmitResponses ==
    [kind : {"http"}, code : {200, 201, 500}, hasId : BOOLEAN]
    \cup [kind : {"exception"}, code : {0}, hasId : {FALSE}]

\* generate_presentation without the test of the generationId
generate_presentationNoIdCheck(key, resp) ==
    IF ~key THEN "raise"
    ELSE IF resp.kind = "exception" THEN "raise"
    ELSE IF resp.code \notin {200, 201} THEN "None"
    ELSE "id"

\* generate_presentation: "raise", "None" or "id" (the new generationId)
generate_presentation(key, resp) ==
    IF ~key THEN "raise"
    ELSE IF resp.kind = "exception" THEN "raise"
    ELSE IF resp.code \notin {200, 201} THEN "None"
    ELSE IF ~resp.hasId THEN "None"
    ELSE "id"

\* the generationId of the next job: the remote service numbers its jobs
NextJobId == 1 + jobs["X"] + jobs["Y"]

\* the status scripts of the jobs process_file waits for
RunScripts ==
    { <<"completed">>, <<"failed">>, <<"pending", "processing", "completed">>,
      <<"processing">>, <<"unknown", "completed">>, <<"http_error">>,
      <<"pending", "exception">> }

NoJob == [script |-> <<>>]

(***************************************************************************)
(* The text of an input file and the payload built from it.  A text is a   *)
(* sequence of tokens, each a run of plain text or a URL, with its length  *)
(* in characters:                                                          *)
(*   kind  "text" or "url"                                                 *)
(*   img   for a URL: "ext" (ends in an image extension), "domain" (names  *)
(*         an image hosting domain), "none"                                *)
(*   id    tells the URLs apart                                            *)
(*   part  "body" (the extracted text) or "section" (the image section     *)
(*         process_file appends)                                           *)
(*   cut   the token was cut short by the truncation of the text           *)
(***************************************************************************)
Suffixes == {".docx", ".pdf", ".txt"}

Url(i, img) ==
    [kind |-> "url", img |-> img, id |-> i, len |-> UrlLen, part |-> "body", cut |-> FALSE]

TextRun(n) ==
    [kind |-> "text", img |-> "none", id |-> 0, len |-> n, part |-> "body", cut |-> FALSE]

\* a URL of the document besides its image URLs 1..n: none, URL 1 again, a URL
\* of an image hosting domain, a URL that is no image
Extras == {"none", "dup", "domain", "other"}

ExtraTokens(extra, n) ==
    CASE extra = "dup" /\ n >= 1 -> <<Url(1, "ext")>>
      [] extra = "domain" -> <<Url(MaxUrls + 1, "domain")>>
      [] extra = "other" -> <<Url(MaxUrls + 2, "none")>>
      [] OTHER -> <<>>

\* the text of a document: n image URLs and a run of plain text, in either order
DocumentText(n, filler, urlsFirst, extra) ==
    LET urls == [k \in 1..n |-> Url(k, "ext")] \o ExtraTokens(extra, n)
        text == IF filler = 0 THEN <<>> ELSE <<TextRun(filler)>>
    IN  IF urlsFirst THEN urls \o text ELSE text \o urls

\* re.findall(r'https?://...', text)
FindUrls(text) == SelectSeq(text, LAMBDA t : t.kind = "url")

RECURSIVE Dedup(_, _)
\* `if is_image and url not in image_urls: image_urls.append(url)`
Dedup(urls, acc) ==
    IF urls = <<>> THEN acc
    ELSE IF \E k \in 1..Len(acc) : acc[k] = Head(urls)
         THEN Dedup(Tail(urls), acc)
         ELSE Dedup(Tail(urls), Append(acc, Head(urls)))

\* image_urls of extract_text_from_docx: by extension or by domain, without repeats
DocxImageUrls(text) ==
    Dedup(SelectSeq(FindUrls(text), LAMBDA t : t.img \in {"ext", "domain"}), <<>>)

\* image_urls of process_file for a .pdf: by extension only, repeats kept
PdfImageUrls(text) == SelectSeq(FindUrls(text), LAMBDA t : t.img = "ext")

RECURSIVE TotalLen(_)
\* len(text_content)
TotalLen(text) == IF text = <<>> THEN 0 ELSE Head(text).len + TotalLen(Tail(text))

RECURSIVE Truncate(_, _)
\* text_content[:limit]
Truncate(text, limit) ==
    IF text = <<>> \/ limit = 0 THEN <<>>
    ELSE IF Head(text).len <= limit
         THEN <<Head(text)>> \o Truncate(Tail(text), limit - Head(text).len)
         ELSE <<[Head(text) EXCEPT !.len = limit, !.cut = TRUE]>>

Min(x, y) == IF x <= y THEN x ELSE y

\* image_section: the header line and image_urls[:20], one per line
ImageSection(image_urls) ==
    <<[TextRun(HEADER_LEN) EXCEPT !.part = "section"]>>
    \o [k \in 1..Min(Len(image_urls), IMAGE_CAP) |->
           [image_urls[k] EXCEPT !.part = "section"]]

\* text_content as process_file hands it to generate_presentation
InputText(text, image_urls) ==
    LET full == IF image_urls # <<>> THEN text \o ImageSection(image_urls) ELSE text
    IN  IF TotalLen(full) > TEXT_LIMIT THEN Truncate(full, TEXT_LIMIT) ELSE full

\* additional_instructions of process_file
AdditionalInstructions(image_urls) ==
    IF image_urls # <<>> THEN "professional+use_image_urls" ELSE "professional"

\* the payload generate_presentation posts
Payload(input_text, additional_instructions, has_image_urls) ==
    LET image_source == IF has_image_urls THEN "noImages" ELSE "aiGenerated"
    IN  [inputText |-> input_text,
         additionalInstructions |-> additional_instructions,
         imageSource |-> image_source,
         imageModel |-> IF image_source = "aiGenerated" THEN "imagen-4-pro" ELSE ""]

NoPayload ==
    [inputText |-> <<>>, additionalInstructions |-> "", imageSource |-> "",
     imageModel |-> ""]

\* locals of process_file between the dedup check and the submission
SubLocals(suffix, document) ==
    [suffix |-> suffix, document |-> document, text_content |-> <<>>,
     image_urls |-> <<>>, input_text |-> <<>>, additional_instructions |-> "",
     payload |-> NoPayload]

NoSub == SubLocals("", <<>>)

(***************************************************************************)
(* process_file.                                                           *)
(***************************************************************************)
NoRun ==
    [path |-> "", force |-> FALSE, reuse |-> FALSE, gid |-> 0, url |-> "",
     export |-> FALSE]

NoReturn == [fn |-> "", value |-> "", result |-> NoneResult]

\* GammaUrlOf with url preferred to gammaUrl
GammaUrlOfUrlFirst(result) == IF result.url # "" THEN result.url ELSE result.gammaUrl

\* gamma_url = result.get("gammaUrl") or result.get("url")
GammaUrlOf(result) == IF result.gammaUrl # "" THEN result.gammaUrl ELSE result.url

\* process_file returns: the locals go out of scope
Return(value) ==
    /\ ret' = [fn |-> "process_file", value |-> value, result |-> NoneResult]
    /\ pc' = "idle"
    /\ run' = NoRun
    /\ w' = NoWait
    /\ a' = NoApi
    /\ d' = NoDl
    /\ job' = NoJob
    /\ clock' = 0

\* Begin with download_pdf called for a recorded file whether or not its output
\* file exists
BeginAlwaysExports(p, force, hashOK, readOK) ==
    /\ pc = "idle"
    /\ runs < MaxRuns
    /\ runs' = runs + 1
    /\ forcedSeen' = (forcedSeen \/ force)
    /\ UNCHANGED <<cfg, b, sub, completedSeen, ledger, outputs, now, jobs, mem, submitCalls, persisted>>
    /\ IF ~PathExists(p)
       THEN Return("False")
       ELSE LET found == IF force THEN [exists |-> FALSE, record |-> NoRecord]
                         ELSE check_existing_generation(ledger, p, hashOK, readOK)
                r == [NoRun EXCEPT !.path = p, !.force = force]
            IN  IF found.exists /\ found.record.gamma_url # ""
                THEN LET rr == [r EXCEPT !.reuse = TRUE,
                                        !.gid = found.record.generation_id,
                                        !.url = found.record.gamma_url]
                     IN  /\ run' = [rr EXCEPT !.export = TRUE]
                         /\ a' = ApiLocals(rr.url, rr.gid, OutputPathOf(p), "pdf")
                         /\ d' = DlLocals(rr.url, rr.gid, OutputPathOf(p), FALSE)
                         /\ pc' = "api"
                         /\ UNCHANGED <<w, job, clock, ret>>
                ELSE /\ run' = r
                     /\ pc' = "extract"
                     /\ UNCHANGED <<w, a, d, job, clock, ret>>

\* process_file up to the text extraction: the dedup check and, for a file with a
\* recorded gamma_url, the start of download_pdf
Begin(p, force, hashOK, readOK) ==
    /\ pc = "idle"
    /\ runs < MaxRuns
    /\ runs' = runs + 1
    /\ forcedSeen' = (forcedSeen \/ force)
    /\ UNCHANGED <<cfg, b, sub, completedSeen, ledger, outputs, now, jobs, mem, submitCalls, persisted>>
    /\ IF ~PathExists(p)
       THEN Return("False")
       ELSE LET found == IF force THEN [exists |-> FALSE, record |-> NoRecord]
                         ELSE check_existing_generation(ledger, p, hashOK, readOK)
                r == [NoRun EXCEPT !.path = p, !.force = force]
            IN  IF found.exists /\ found.record.gamma_url # ""
                THEN LET rr == [r EXCEPT !.reuse = TRUE,
                                        !.gid = found.record.generation_id,
                                        !.url = found.record.gamma_url]
                     IN  IF OutputPathOf(p) \notin outputs
                         THEN /\ run' = [rr EXCEPT !.export = TRUE]
                              /\ a' = ApiLocals(rr.url, rr.gid, OutputPathOf(p), "pdf")
                              /\ d' = DlLocals(rr.url, rr.gid, OutputPathOf(p), FALSE)
                              /\ pc' = "api"
                              /\ UNCHANGED <<w, job, clock, ret>>
                         ELSE Return("True")
                ELSE /\ run' = r
                     /\ pc' = "extract"
                     /\ UNCHANGED <<w, a, d, job, clock, ret>>

\* the text extraction: text was extracted or the run returns False
Extract(ok) ==
    /\ pc = "extract"
    /\ UNCHANGED <<cfg, b, sub, completedSeen, ledger, outputs, now, jobs, mem, runs, submitCalls, persisted, forcedSeen>>
    /\ IF ok
       THEN /\ pc' = "submit"
            /\ UNCHANGED <<run, w, a, d, job, clock, ret>>
       ELSE Return("False")

\* the call of generate_presentation and, with a generation id, the entry of
\* wait_for_completion
Submit(resp, script) ==
    /\ pc = "submit"
    /\ submitCalls' = [submitCalls EXCEPT ![ContentOf(run.path)] = @ + 1]
    /\ UNCHANGED <<cfg, b, sub, completedSeen, ledger, outputs, now, mem, runs, persisted, forcedSeen>>
    /\ LET got == generate_presentation(cfg.key, resp)
       IN  CASE got = "raise" -> Return("raised") /\ jobs' = jobs
             [] got = "None" -> Return("False") /\ jobs' = jobs
             [] OTHER ->
                  /\ jobs' = [jobs EXCEPT ![ContentOf(run.path)] = @ + 1]
                  /\ run' = [run EXCEPT !.gid = NextJobId]
                  /\ job' = [script |-> script]
                  /\ w' = WaitLocals(NextJobId, DEFAULT_MAX_WAIT, DEFAULT_CHECK_INTERVAL, clock)
                  /\ pc' = "w_loop"
                  /\ UNCHANGED <<a, d, clock, ret>>

\* after wait_for_completion: the gamma_url, add_generation_record and the start
\* of download_pdf; useBrowser is os.getenv("USE_BROWSER_EXPORT") == "true"
Record(hashOK, readOK, outcome, useBrowser) ==
    /\ pc = "w_done"
    /\ UNCHANGED <<cfg, b, sub, completedSeen, jobs, mem, runs, submitCalls, outputs, forcedSeen>>
    /\ IF w.raised
       THEN Return("raised") /\ UNCHANGED <<ledger, now, persisted>>
       ELSE IF ~w.success \/ GammaUrlOf(w.result) = ""
       THEN Return("False") /\ UNCHANGED <<ledger, now, persisted>>
       ELSE LET url == GammaUrlOf(w.result)
                saved == add_generation_record_ret(run.path, hashOK, outcome)
            IN  /\ ledger' = add_generation_record_file(ledger, run.path, run.gid, url,
                                  "completed", now, hashOK, readOK, outcome)
                /\ now' = now + 1
                /\ persisted' = IF saved THEN persisted \cup {ContentOf(run.path)}
                                 ELSE persisted
                /\ run' = [run EXCEPT !.url = url, !.export = TRUE]
                /\ a' = ApiLocals(url, run.gid, OutputPathOf(run.path), "pdf")
                /\ d' = DlLocals(url, run.gid, OutputPathOf(run.path), useBrowser)
                /\ pc' = "api"
                /\ w' = NoWait
                /\ job' = NoJob
                /\ clock' = 0
                /\ ret' = ret

\* after download_pdf: the update of the record and the return
Finish(readOK, outcome) ==
    /\ pc = "dl_done"
    /\ UNCHANGED <<cfg, b, sub, completedSeen, outputs, jobs, mem, runs, submitCalls, persisted, forcedSeen>>
    /\ IF run.reuse
       THEN Return("True") /\ UNCHANGED <<ledger, now>>
       ELSE /\ ledger' = update_generation_record_file(ledger, run.gid,
                              IF d.ret
                              THEN [pdf_downloaded |-> "true", pdf_path |-> d.out]
                              ELSE [pdf_downloaded |-> "false"],
                              now, readOK, outcome)
            /\ now' = now + 1
            /\ Return(IF d.ret THEN "True" ELSE "False")

(***************************************************************************)
(* Spec: runs of process_file, one after the other.                        *)
(***************************************************************************)
Init ==
    /\ cfg \in [key : BOOLEAN, selenium : BOOLEAN]
    /\ ledger = [state |-> "absent", records |-> <<>>]
    /\ outputs = {}
    /\ now = 1
    /\ clock = 0
    /\ jobs = [c \in Contents |-> 0]
    /\ job = NoJob
    /\ pc = "idle"
    /\ run = NoRun
    /\ w = NoWait
    /\ a = NoApi
    /\ d = NoDl
    /\ mem = <<>>
    /\ sub = NoSub
    /\ ret = NoReturn
    /\ runs = 0
    /\ submitCalls = [c \in Contents |-> 0]
    /\ persisted = {}
    /\ completedSeen = {}
    /\ forcedSeen = FALSE
    /\ b = NoBrowser

Next ==
    \/ \E p \in Paths \cup {MissingPath}, force \in BOOLEAN, hashOK \in BOOLEAN,
          readOK \in BOOLEAN : Begin(p, force, hashOK, readOK)
    \/ \E ok \in BOOLEAN : Extract(ok)
    \/ \E resp \in SubmitResponses, script \in RunScripts : Submit(resp, script)
    \/ \E body \in Bodies : WaitPoll(0, body)
    \/ WaitSleep
    \/ WaitTimeout
    \/ \E hashOK \in BOOLEAN, readOK \in BOOLEAN, outcome \in SaveOutcomes,
          useBrowser \in BOOLEAN : Record(hashOK, readOK, outcome, useBrowser)
    \/ \E resp \in RunResponses, written \in WriteOutcomes : ApiRequest(resp, written)
    \/ DownloadPdfAfterApi
    \/ \E outcome \in BrowserOutcomes : DownloadViaBrowser(outcome)
    \/ \E readOK \in BOOLEAN, outcome \in SaveOutcomes : Finish(readOK, outcome)

Spec == Init /\ [][Next]_vars

(***************************************************************************)
(* SpecLedger: calls of load_records, add_generation_record and            *)
(* update_generation_record, in any order and with any arguments.          *)
(***************************************************************************)
Urls == {UrlDoc, UrlNoDoc}

\* the keyword arguments passed to update_generation_record
Kwargs ==
    {[pdf_downloaded |-> "true", pdf_path |-> OutputPathOf("a.docx")],
     [pdf_downloaded |-> "false"], [status |-> "failed"]}

BoolStr(v) == IF v THEN "True" ELSE "False"

LoadRecords(readOK) ==
    /\ pc = "idle"
    /\ runs < MaxOps
    /\ runs' = runs + 1
    /\ mem' = load_records(ledger, readOK)
    /\ ret' = [fn |-> "load_records", value |-> "", result |-> NoneResult]
    /\ UNCHANGED <<cfg, b, sub, completedSeen, ledger, outputs, now, clock, jobs, job, pc, run, w, a, d,
                   submitCalls, persisted, forcedSeen>>

AddGenerationRecord(p, gid, url, status, hashOK, readOK, outcome) ==
    /\ pc = "idle"
    /\ runs < MaxOps
    /\ runs' = runs + 1
    /\ ledger' = add_generation_record_file(ledger, p, gid, url, status, now, hashOK,
                                            readOK, outcome)
    /\ now' = now + 1
    /\ mem' = <<>>
    /\ ret' = [fn |-> "add_generation_record",
               value |-> BoolStr(add_generation_record_ret(p, hashOK, outcome)),
               result |-> NoneResult]
    /\ UNCHANGED <<cfg, b, sub, completedSeen, outputs, clock, jobs, job, pc, run, w, a, d, submitCalls,
                   persisted, forcedSeen>>

UpdateGenerationRecord(gid, kwargs, readOK, outcome) ==
    /\ pc = "idle"
    /\ runs < MaxOps
    /\ runs' = runs + 1
    /\ ledger' = update_generation_record_file(ledger, gid, kwargs, now, readOK, outcome)
    /\ now' = now + 1
    /\ mem' = <<>>
    /\ ret' = [fn |-> "update_generation_record",
               value |-> BoolStr(update_generation_record_ret(ledger, gid, readOK, outcome)),
               result |-> NoneResult]
    /\ UNCHANGED <<cfg, b, sub, completedSeen, outputs, clock, jobs, job, pc, run, w, a, d, submitCalls,
                   persisted, forcedSeen>>

\* save_records(load_records())
SaveLoaded(readOK, outcome) ==
    /\ pc = "idle"
    /\ runs < MaxOps
    /\ runs' = runs + 1
    /\ ledger' = save_records_file(ledger, load_records(ledger, readOK), outcome)
    /\ mem' = <<>>
    /\ ret' = [fn |-> "save_records", value |-> BoolStr(save_records_ret(outcome)),
               result |-> NoneResult]
    /\ UNCHANGED <<cfg, b, sub, completedSeen, outputs, now, clock, jobs, job, pc, run, w, a, d, submitCalls,
                   persisted, forcedSeen>>

\* check_existing_generation; mem keeps the arguments and the result
CheckExistingGeneration(p, hashOK, readOK) ==
    /\ pc = "idle"
    /\ runs < MaxOps
    /\ runs' = runs + 1
    /\ LET found == check_existing_generation(ledger, p, hashOK, readOK)
       IN  /\ mem' = [path |-> p, hashOK |-> hashOK, readOK |-> readOK,
                      exists |-> found.exists, record |-> found.record]
           /\ ret' = [fn |-> "check_existing_generation", value |-> BoolStr(found.exists),
                      result |-> NoneResult]
    /\ UNCHANGED <<cfg, b, sub, completedSeen, ledger, outputs, now, clock, jobs, job, pc, run, w, a, d,
                   submitCalls, persisted, forcedSeen>>

InitLedger ==
    /\ cfg = [key |-> TRUE, selenium |-> FALSE]
    /\ ledger = [state |-> "absent", records |-> <<>>]
    /\ outputs = {}
    /\ now = 1
    /\ clock = 0
    /\ jobs = [c \in Contents |-> 0]
    /\ job = NoJob
    /\ pc = "idle"
    /\ run = NoRun
    /\ w = NoWait
    /\ a = NoApi
    /\ d = NoDl
    /\ mem = <<>>
    /\ sub = NoSub
    /\ ret = NoReturn
    /\ runs = 0
    /\ submitCalls = [c \in Contents |-> 0]
    /\ persisted = {}
    /\ completedSeen = {}
    /\ forcedSeen = FALSE
    /\ b = NoBrowser

NextLedger ==
    \/ \E readOK \in BOOLEAN : LoadRecords(readOK)
    \/ \E p \in Paths, hashOK \in BOOLEAN, readOK \in BOOLEAN :
          CheckExistingGeneration(p, hashOK, readOK)
    \/ \E readOK \in BOOLEAN, outcome \in SaveOutcomes : SaveLoaded(readOK, outcome)
    \/ \E p \in Paths, gid \in 1..MaxIds, url \in Urls, status \in {"completed", "failed"},
          hashOK \in BOOLEAN, readOK \in BOOLEAN, outcome \in SaveOutcomes :
          AddGenerationRecord(p, gid, url, status, hashOK, readOK, outcome)
    \/ \E gid \in 1..MaxIds, kwargs \in Kwargs, readOK \in BOOLEAN, outcome \in SaveOutcomes :
          UpdateGenerationRecord(gid, kwargs, readOK, outcome)

SpecLedger == InitLedger /\ [][NextLedger]_vars

(***************************************************************************)
(* SpecWait: one call of wait_for_completion, with any arguments, of a job *)
(* with any script of status answers.                                      *)
(***************************************************************************)
Scripts ==
    {<<x>> : x \in Answers}
    \cup {<<x, y>> : x \in Answers, y \in Answers}
    \cup {<<x, y, z>> : x \in Answers, y \in Answers, z \in Answers}

\* wait_for_completion returns to its caller
WaitReturn ==
    /\ pc = "w_done"
    /\ pc' = "returned"
    /\ ret' = [fn |-> "wait_for_completion",
               value |-> IF w.raised THEN "raised" ELSE BoolStr(w.success),
               result |-> w.result]
    /\ UNCHANGED <<cfg, b, sub, completedSeen, ledger, outputs, now, clock, jobs, job, run, w, a, d, mem, runs,
                   submitCalls, persisted, forcedSeen>>

InitWait ==
    /\ cfg \in [key : BOOLEAN, selenium : {FALSE}]
    /\ ledger = [state |-> "absent", records |-> <<>>]
    /\ outputs = {}
    /\ now = 1
    /\ clock = 0
    /\ jobs = [c \in Contents |-> 0]
    /\ job \in [script : Scripts]
    /\ pc = "w_loop"
    /\ run = NoRun
    /\ \E maxWait \in 0..MaxWaitArg, interval \in 1..MaxIntervalArg :
          w = WaitLocals(1, maxWait, interval, 0)
    /\ a = NoApi
    /\ d = NoDl
    /\ mem = <<>>
    /\ sub = NoSub
    /\ ret = NoReturn
    /\ runs = 1
    /\ submitCalls = [c \in Contents |-> 0]
    /\ persisted = {}
    /\ completedSeen = {}
    /\ forcedSeen = FALSE
    /\ b = NoBrowser

NextWait ==
    \/ \E dur \in 0..MaxPollTime, body \in Bodies : WaitPoll(dur, body)
    \/ WaitSleep
    \/ WaitTimeout
    \/ WaitReturn

SpecWait == InitWait /\ [][NextWait]_vars

\* wait_for_completion runs on the only thread of the program: once called it
\* keeps executing until it returns
SpecWaitLive == SpecWait /\ WF_vars(NextWait)

(***************************************************************************)
(* SpecApi: one call of download_via_api, with any arguments.              *)
(***************************************************************************)
\* download_via_api returns (success, method) to its caller
ApiReturn ==
    /\ pc = "api_done"
    /\ pc' = "returned"
    /\ ret' = [fn |-> "download_via_api", value |-> BoolStr(a.success),
               result |-> NoneResult]
    /\ UNCHANGED <<cfg, b, sub, completedSeen, ledger, outputs, now, clock, jobs, job, run, w, a, d, mem, runs,
                   submitCalls, persisted, forcedSeen>>

InitApi ==
    /\ cfg = [key |-> TRUE, selenium |-> FALSE]
    /\ ledger = [state |-> "absent", records |-> <<>>]
    /\ outputs = {}
    /\ now = 1
    /\ clock = 0
    /\ jobs = [c \in Contents |-> 0]
    /\ job = NoJob
    /\ pc = "api"
    /\ run = NoRun
    /\ w = NoWait
    /\ \E url \in Urls, fmt \in Formats :
          /\ a = ApiLocals(url, 1, "output/out", fmt)
          /\ d = DlLocals(url, 1, "output/out", FALSE)
    /\ mem = <<>>
    /\ sub = NoSub
    /\ ret = NoReturn
    /\ runs = 1
    /\ submitCalls = [c \in Contents |-> 0]
    /\ persisted = {}
    /\ completedSeen = {}
    /\ forcedSeen = FALSE
    /\ b = NoBrowser

NextApi ==
    \/ \E resp \in Responses, written \in WriteOutcomes : ApiRequest(resp, written)
    \/ ApiReturn

SpecApi == InitApi /\ [][NextApi]_vars

(***************************************************************************)
(* SpecPayload: process_file from the text extraction to the request that  *)
(* generate_presentation posts, for any document.                          *)
(***************************************************************************)
\* extract_text_from_docx / extract_text_from_pdf and the image URLs; readOK is
\* false when reading the document raises
ExtractText(readOK) ==
    /\ pc = "p_extract"
    /\ LET text == IF readOK THEN sub.document ELSE <<>>
           urls == CASE sub.suffix = ".docx" -> DocxImageUrls(text)
                     [] sub.suffix = ".pdf" -> PdfImageUrls(text)
                     [] OTHER -> <<>>
       IN  IF sub.suffix \notin {".docx", ".pdf"} \/ text = <<>>
           THEN /\ pc' = "returned"
                /\ ret' = [fn |-> "process_file", value |-> "False", result |-> NoneResult]
                /\ sub' = sub
           ELSE /\ pc' = "p_build"
                /\ ret' = ret
                /\ sub' = [sub EXCEPT !.text_content = text, !.image_urls = urls]
    /\ UNCHANGED <<cfg, b, completedSeen, ledger, outputs, now, clock, jobs, job, run, w, a, d, mem, runs,
                   submitCalls, persisted, forcedSeen>>

\* the image section, the truncation and additional_instructions
BuildInput ==
    /\ pc = "p_build"
    /\ sub' = [sub EXCEPT
                 !.input_text = InputText(sub.text_content, sub.image_urls),
                 !.additional_instructions = AdditionalInstructions(sub.image_urls)]
    /\ pc' = "p_submit"
    /\ UNCHANGED <<cfg, b, completedSeen, ledger, outputs, now, clock, jobs, job, run, w, a, d, mem, ret,
                   runs, submitCalls, persisted, forcedSeen>>

\* generate_presentation builds the payload and posts it
PostPayload ==
    /\ pc = "p_submit"
    /\ IF ~cfg.key
       THEN /\ sub' = sub
            /\ ret' = [fn |-> "generate_presentation", value |-> "raised",
                       result |-> NoneResult]
       ELSE /\ sub' = [sub EXCEPT !.payload =
                         Payload(sub.input_text, sub.additional_instructions,
                                 Len(sub.image_urls) > 0)]
            /\ ret' = ret
    /\ pc' = "returned"
    /\ UNCHANGED <<cfg, b, completedSeen, ledger, outputs, now, clock, jobs, job, run, w, a, d, mem, runs,
                   submitCalls, persisted, forcedSeen>>

InitPayload ==
    /\ cfg \in [key : BOOLEAN, selenium : {FALSE}]
    /\ ledger = [state |-> "absent", records |-> <<>>]
    /\ outputs = {}
    /\ now = 1
    /\ clock = 0
    /\ jobs = [c \in Contents |-> 0]
    /\ job = NoJob
    /\ pc = "p_extract"
    /\ run = NoRun
    /\ w = NoWait
    /\ a = NoApi
    /\ d = NoDl
    /\ mem = <<>>
    /\ \E suffix \in Suffixes, n \in 0..MaxUrls, filler \in {0, ShortTextLen, LongTextLen},
          urlsFirst \in BOOLEAN, extra \in Extras :
          sub = SubLocals(suffix, DocumentText(n, filler, urlsFirst, extra))
    /\ ret = NoReturn
    /\ runs = 1
    /\ submitCalls = [c \in Contents |-> 0]
    /\ persisted = {}
    /\ completedSeen = {}
    /\ forcedSeen = FALSE
    /\ b = NoBrowser

NextPayload ==
    \/ \E readOK \in BOOLEAN : ExtractText(readOK)
    \/ BuildInput
    \/ PostPayload

SpecPayload == InitPayload /\ [][NextPayload]_vars

(***************************************************************************)
(* SpecBrowser: one call of download_via_browser, with any arguments and   *)
(* any download directory.                                                 *)
(***************************************************************************)
StartClock == 200    \* time.time() when the call starts
FreshAge == 10       \* age of a file written shortly before the call
StaleAge == 100      \* age of a file written long before the call
MaxPageExtra == 22   \* longest time the clicks take beyond time.sleep(8)

\* the directory when the call starts
StartDirs(fmt) ==
    {[n \in BrowserNames |->
         CASE n = TargetOf(fmt) -> t
           [] n = "old.pdf" -> o
           [] n = "old.pptx" -> x
           [] OTHER -> NoFile] :
       t \in {NoFile, File(StartClock - FreshAge, 0, TRUE),
              File(StartClock - StaleAge, 1, TRUE)},
       o \in {NoFile, File(StartClock - FreshAge, 1, TRUE),
              File(StartClock - StaleAge, 1, TRUE)},
       x \in {NoFile, File(StartClock - FreshAge, 1, TRUE)}}

InitBrowser ==
    /\ cfg \in [key : {TRUE}, selenium : BOOLEAN]
    /\ ledger = [state |-> "absent", records |-> <<>>]
    /\ outputs = {}
    /\ now = 1
    /\ clock = StartClock
    /\ jobs = [c \in Contents |-> 0]
    /\ job = NoJob
    /\ pc = "b_entry"
    /\ run = NoRun
    /\ w = NoWait
    /\ a = NoApi
    /\ d = NoDl
    /\ mem = <<>>
    /\ sub = NoSub
    /\ ret = NoReturn
    /\ runs = 1
    /\ submitCalls = [c \in Contents |-> 0]
    /\ persisted = {}
    /\ completedSeen = {}
    /\ forcedSeen = FALSE
    /\ \E fmt \in Formats, headless \in BOOLEAN :
          \E dir \in StartDirs(fmt) : b = BrowserLocals(fmt, headless, dir)

NextBrowser ==
    \/ \E startOK \in BOOLEAN : BrowserStart(startOK)
    \/ \E ok \in BOOLEAN, dur \in {PAGE_SLEEP, PAGE_SLEEP + MaxPageExtra} :
          BrowserPage(ok, dur)
    \/ \E renameOK \in BOOLEAN : BrowserCheck(renameOK)
    \/ BrowserTimeout
    \/ BrowserFinally
    \/ ChromeStartsDownload
    \/ ChromeFinishesDownload

SpecBrowser == InitBrowser /\ [][NextBrowser]_vars

\* the call runs until it returns
SpecBrowserLive == SpecBrowser /\ WF_vars(NextBrowser)

(***************************************************************************)
(* The claims.                                                             *)
(***************************************************************************)

\* C1 (Spec): once a run has submitted a job, seen it complete and saved its
\* record with a gamma_url, no later non-forced run on a file with the same
\* content calls generate_presentation.
C1_NoResubmitAfterPersisted ==
    [][submitCalls' # submitCalls =>
           (run.force \/ ContentOf(run.path) \notin persisted)]_vars

\* C2 (Spec): as long as every run is non-forced, at most one job is submitted
\* per distinct input content.  Only the calls of generate_presentation that
\* obtained a generation id are counted: a request the service rejected has
\* submitted no job.
C2_SubmitAtMostOncePerContent ==
    ~forcedSeen => \A c \in Contents : jobs[c] <= 1

\* C3 (Spec): the ledger never holds two records of the same file_hash whose
\* status is not "failed".
C3_OneActiveRecordPerHash ==
    \A i, j \in 1..Len(ledger.records) :
        (/\ i # j
         /\ ledger.records[i].status # "failed"
         /\ ledger.records[j].status # "failed")
        => ledger.records[i].file_hash # ledger.records[j].file_hash

\* C4 (SpecLedger): no call of a ledger function removes a generation id from
\* the ledger file, and every generation id keys exactly one record.
C4_AppendUpdateOnly ==
    [][/\ IdsOf(ledger.records) \subseteq IdsOf(ledger'.records)
       /\ Cardinality(IdsOf(ledger'.records)) = Len(ledger'.records)]_vars

\* C5 (SpecLedger): a record created with a gamma_url keeps its gamma_url,
\* file_path, file_hash, file_name, generation_id and created_at through every
\* later call.
C5_ImmutableAfterCreation ==
    [][\A i \in 1..Len(ledger.records), j \in 1..Len(ledger'.records) :
           (/\ ledger.records[i].generation_id = ledger'.records[j].generation_id
            /\ ledger.records[i].gamma_url # "")
           => /\ ledger'.records[j].gamma_url = ledger.records[i].gamma_url
              /\ ledger'.records[j].file_path = ledger.records[i].file_path
              /\ ledger'.records[j].file_hash = ledger.records[i].file_hash
              /\ ledger'.records[j].file_name = ledger.records[i].file_name
              /\ ledger'.records[j].created_at = ledger.records[i].created_at]_vars

\* C6 (SpecWait): with max_wait_time 10 and check_interval 5, and a job that
\* answers pending, processing, completed, wait_for_completion returns
\* (True, payload) after at most 3 polls and before 15 time units.
C6_CompletesWithinThreePolls ==
    (/\ pc \in {"w_done", "returned"}
     /\ cfg.key
     /\ w.maxWait = 10 /\ w.interval = 5
     /\ job.script = <<"pending", "processing", "completed">>)
    => /\ w.success
       /\ w.result.status = "completed"
       /\ w.polls <= 3
       /\ clock - w.start < 15

NeverTerminal(script) ==
    \A k \in 1..Len(script) : script[k] \in {"pending", "processing", "unknown"}

C7_State ==
    (cfg.key /\ NeverTerminal(job.script)) =>
        /\ pc \in {"w_done", "returned"} =>
               /\ w.timedOut /\ ~w.success /\ w.result = NoneResult
               /\ clock - w.start >= w.maxWait
        /\ w.polls >= 1 => (w.polls - 1) * w.interval < w.maxWait
        /\ w.pollTime = 0 => clock - w.start <= w.maxWait + w.interval

\* C7 (SpecWaitLive): for a job that never answers completed or failed,
\* wait_for_completion eventually returns; it returns (False, None), only when
\* max_wait_time has been reached, after a bounded number of polls, and with
\* instantaneous polls the time elapsed never exceeds
\* max_wait_time + check_interval.
C7_TimesOut ==
    /\ []C7_State
    /\ (cfg.key /\ NeverTerminal(job.script)) ~> (pc = "returned")

C7_Witness ==
    /\ pc = "returned" /\ cfg.key /\ NeverTerminal(job.script)
    /\ job.script[1] = "unknown"
    /\ w.timedOut /\ w.polls = 3 /\ w.pollTime = 0
    /\ clock - w.start > w.maxWait

C8_Returns ==
    (pc \in {"w_done", "returned"} /\ ~w.raised) =>
        /\ w.success <=> (~w.timedOut /\ w.status = "completed")
        /\ w.success => w.result.status = "completed"
        /\ (~w.timedOut /\ w.status = "failed") <=> (~w.success /\ w.result # NoneResult)
        /\ (~w.timedOut /\ w.status = "failed") => w.result.status = "failed"
        /\ (w.timedOut \/ w.status = "None") <=> (~w.success /\ w.result = NoneResult)

\* C8 (SpecWait): wait_for_completion returns (True, payload) exactly when a
\* poll observed completed, (False, payload) exactly when a poll observed
\* failed, and (False, None) exactly on a timeout or a failed poll; after a poll
\* that observed completed or failed no further poll is made.
C8_ReturnValues ==
    /\ []C8_Returns
    /\ [][w.status \in {"completed", "failed"} => w'.polls = w.polls]_vars

C8_Witness ==
    /\ pc = "returned" /\ ~w.success /\ w.status = "failed"
    /\ w.result.status = "failed" /\ w.polls = 2

\* C9 (SpecWait): two consecutive status polls of a job are at least
\* check_interval apart, whatever status the first of them returned.
C9_PollSpacing ==
    w.polls >= 2 => w.pollAt - w.prevPollAt >= w.interval

C9_Witness ==
    /\ w.polls >= 2 /\ w.prevStatus = "unknown"
    /\ w.pollAt - w.prevPollAt = w.interval

\* the order of the candidate URLs the claim states
CandidateOrder(url) ==
    IF DocIdOf(url) # ""
    THEN <<"public-api/docs", "public-api/generations", "gamma.app/api/export">>
    ELSE <<"public-api/generations">>

C10_State ==
    /\ Len(d.requested) <= Len(CandidateOrder(d.url))
    /\ \A k \in 1..Len(d.requested) : d.requested[k].base = CandidateOrder(d.url)[k]
    /\ a.success =>
           /\ pc \in {"api_done", "returned"}
           /\ a.last.kind = "http" /\ a.last.code = 200 /\ a.last.code # 202
           /\ a.fmt = "pdf" => (a.last.ctype = PdfType \/ a.last.sig = "%PDF")
           /\ a.fmt = "pptx" => (a.last.ctype = PptxType \/ a.last.sig = "PK")
    /\ (pc \in {"api_done", "returned"} /\ ~a.success) =>
           Len(d.requested) = Len(CandidateOrder(d.url))
    /\ pc = "returned" => (ret.value = "True" <=> a.success)

\* C10 (SpecApi): download_via_api requests its candidate URLs in list order,
\* returns success only for an answer with status 200 that matches the format
\* by content type or signature (never for 202), and requests no candidate
\* after such an answer.
C10_CandidateOrder ==
    /\ []C10_State
    /\ [][a.success => d'.requested = d.requested]_vars
    /\ [][(a.last.kind = "http" /\ a.last.code = 200
            /\ (a.fmt = "pdf" => (a.last.ctype = PdfType \/ a.last.sig = "%PDF"))
            /\ (a.fmt = "pptx" => (a.last.ctype = PptxType \/ a.last.sig = "PK")))
           => d'.requested = d.requested]_vars

\* whether an answer matches the format by content type or leading bytes
MatchesFormat(fmt, resp) ==
    \/ fmt = "pdf" /\ (resp.ctype = PdfType \/ resp.sig = "%PDF")
    \/ fmt = "pptx" /\ (resp.ctype = PptxType \/ resp.sig = "PK")

\* C11 (SpecApi): download_via_api writes to the output path only for an answer
\* with status 200 that matches the format by content type or leading bytes;
\* after a 200 answer with Content-Type text/html whose body does not start
\* with %PDF, for a pdf export, the output path is unwritten and the function
\* goes on to the next candidate, or returns failure after the last one.
C11_WritesOnlyMatching ==
    [][pc = "api" =>
         /\ outputs' # outputs =>
                /\ a'.last.kind = "http" /\ a'.last.code = 200
                /\ MatchesFormat(a.fmt, a'.last)
         /\ (/\ a.fmt = "pdf" /\ a'.last.kind = "http" /\ a'.last.code = 200
             /\ a'.last.ctype = HtmlType /\ a'.last.sig # "%PDF")
            => /\ outputs' = outputs
               /\ ~a'.success
               /\ a'.i = a.i + 1
               /\ pc' = IF a.i < Len(a.urls) THEN "api" ELSE "api_done"]_vars

C11_Witness ==
    /\ a.fmt = "pdf" /\ a.last.kind = "http" /\ a.last.code = 200
    /\ a.last.ctype = HtmlType /\ a.last.sig = "<htm"
    /\ Len(d.requested) = 1 /\ pc = "api" /\ outputs = {}

\* C12 (Spec): download_pdf calls download_via_browser only after
\* download_via_api failed and only with automation available and enabled; when
\* download_via_api failed and automation is unavailable or use_browser is
\* false, download_pdf returns failure without calling download_via_browser.
C12_BrowserOnlyWhenEnabled ==
    [][pc = "api_done" =>
         /\ pc' = "browser" => (~a.success /\ cfg.selenium /\ d.useBrowser)
         /\ (~a.success /\ (~cfg.selenium \/ ~d.useBrowser))
            => (pc' = "dl_done" /\ ~d'.ret /\ d'.browserCalls = 0)]_vars

C13_State ==
    (pc = "dl_done" /\ ~d.ret) =>
        /\ Len(d.requested) = Len(CandidateOrder(d.url))
        /\ \A k \in 1..Len(d.requested) :
               /\ d.requested[k].base = CandidateOrder(d.url)[k]
               /\ d.requested[k].fmt = "pdf"
               /\ d.requested[k].doc \in {"", DocIdOf(d.url)}
               /\ d.requested[k].gid \in {0, d.gid}
        /\ d.browserCalls = IF cfg.selenium THEN 1 ELSE 0

C14_ReuseSkipsNetwork ==
    /\ [][\A p \in Paths, hashOK \in BOOLEAN, readOK \in BOOLEAN :
            LET found == check_existing_generation(ledger, p, hashOK, readOK)
            IN  (/\ Begin(p, FALSE, hashOK, readOK)
                 /\ found.exists /\ found.record.gamma_url # "")
                => /\ submitCalls' = submitCalls /\ jobs' = jobs /\ w' = w
                   /\ (pc' = "api") <=> (OutputPathOf(p) \notin outputs)
                   /\ pc' = "api" => (run'.reuse /\ d'.requested = <<>>)
                   /\ OutputPathOf(p) \in outputs
                      => (/\ pc' = "idle" /\ ret'.value = "True"
                          /\ a' = NoApi /\ d' = NoDl)]_vars
    /\ [][run.reuse => (submitCalls' = submitCalls /\ jobs' = jobs /\ w' = w)]_vars

C14_Witness ==
    /\ pc = "idle" /\ ret.value = "True"
    /\ OutputPathOf("a.docx") \in outputs
    /\ check_existing_generation(ledger, "a.docx", TRUE, TRUE).exists
    /\ check_existing_generation(ledger, "a.docx", TRUE, TRUE).record.file_path
          = Resolve("a.docx")
    /\ ENABLED (/\ Begin("a.docx", FALSE, TRUE, TRUE)
                /\ pc' = "idle" /\ ret'.value = "True" /\ submitCalls' = submitCalls)

\* C15 (Spec): when a run of process_file that called download_pdf returns, the
\* ledger record of its generation id holds the outcome of the export:
\* pdf_downloaded true and pdf_path the output path after a success,
\* pdf_downloaded false after a failure.
C15_ExportOutcomePersisted ==
    [][(pc = "dl_done" /\ pc' = "idle") =>
         \E i \in 1..Len(ledger'.records) :
            /\ ledger'.records[i].generation_id = run.gid
            /\ IF d.ret
               THEN /\ ledger'.records[i].pdf_downloaded = "true"
                    /\ ledger'.records[i].pdf_path = d.out
               ELSE ledger'.records[i].pdf_downloaded = "false"]_vars

\* a URL appears verbatim among some tokens
Appears(url, text) ==
    \E k \in 1..Len(text) :
        /\ text[k].kind = "url" /\ text[k].id = url.id /\ ~text[k].cut

\* C16 (SpecPayload): the payload's image source is noImages exactly when
\* process_file found an image URL in the document, and aiGenerated otherwise;
\* the first min(n, 20) of the n image URLs found appear verbatim in the
\* payload's input text, and its image section holds none of the others.
C16_ImagePayload ==
    (pc = "returned" /\ sub.payload # NoPayload) =>
        LET n == Len(sub.image_urls)
            first == {sub.image_urls[k].id : k \in 1..Min(n, IMAGE_CAP)}
            section == SelectSeq(sub.payload.inputText, LAMBDA t : t.part = "section")
        IN  /\ sub.payload.imageSource = IF n >= 1 THEN "noImages" ELSE "aiGenerated"
            /\ \A k \in 1..Min(n, IMAGE_CAP) :
                   Appears(sub.image_urls[k], sub.payload.inputText)
            /\ \A k \in 1..n :
                   sub.image_urls[k].id \notin first
                   => ~Appears(sub.image_urls[k], section)

\* C17 (SpecLedger): when get_file_hash fails, check_existing_generation still
\* returns a record whose file_path is the resolved path of the file, if the
\* ledger holds one, and add_generation_record still records the job.
C17_PathOnlyDedup ==
    /\ [](ret.fn = "check_existing_generation" =>
            ((/\ ~mem.hashOK /\ mem.readOK /\ ledger.state = "valid"
              /\ \E i \in 1..Len(ledger.records) :
                    ledger.records[i].file_path = Resolve(mem.path))
             => (mem.exists /\ mem.record.file_path = Resolve(mem.path))))
    /\ [][\A p \in Paths, gid \in 1..MaxIds, url \in Urls :
            AddGenerationRecord(p, gid, url, "completed", FALSE, TRUE, "ok")
            => gid \in IdsOf(ledger'.records)]_vars

\* C18 (SpecLedger): check_existing_generation reports a file as processed
\* exactly when a record of the ledger has its resolved path or its hash, and
\* when some record has its path it returns a record with that path, wherever
\* the records with only its hash stand in the ledger.
C18_PathBeforeHash ==
    (ret.fn = "check_existing_generation" /\ mem.hashOK /\ mem.readOK
       /\ ledger.state = "valid") =>
        LET recs == ledger.records
            byPath == {i \in 1..Len(recs) : recs[i].file_path = Resolve(mem.path)}
            byHash == {i \in 1..Len(recs) : recs[i].file_hash = Md5(ContentOf(mem.path))}
        IN  /\ mem.exists <=> (byPath \cup byHash # {})
            /\ byPath # {} => mem.record.file_path = Resolve(mem.path)

\* C19 (SpecLedger): a call of add_generation_record or
\* update_generation_record whose save_records fails leaves on disk the mapping
\* that load_records returned before the call.
C19_FailedSaveKeepsFile ==
    [][\A readOK \in BOOLEAN, outcome \in SaveOutcomes \ {"ok"} :
          /\ \A p \in Paths, gid \in 1..MaxIds, url \in Urls,
                status \in {"completed", "failed"} :
                AddGenerationRecord(p, gid, url, status, TRUE, readOK, outcome)
                => (/\ ret'.value = "False"
                    /\ load_records(ledger', TRUE) = load_records(ledger, TRUE))
          /\ \A gid \in 1..MaxIds, kwargs \in Kwargs :
                UpdateGenerationRecord(gid, kwargs, readOK, outcome)
                => (/\ ret'.value = "False"
                    /\ load_records(ledger', TRUE) = load_records(ledger, TRUE))]_vars

\* C20 (SpecLedger): update_generation_record of a generation id the ledger
\* holds sets the given fields, leaves created_at and every other field of the
\* record and every other record unchanged, and sets updated_at to the current
\* time; add_generation_record of a generation id the ledger does not hold
\* appends a new record for it.  Both for calls whose load and save succeed.
C20_Upsert ==
    [][/\ \A gid \in 1..MaxIds, kwargs \in Kwargs :
            (/\ UpdateGenerationRecord(gid, kwargs, TRUE, "ok")
             /\ ledger.state = "valid" /\ gid \in IdsOf(ledger.records))
            => /\ ledger'.state = "valid"
               /\ Len(ledger'.records) = Len(ledger.records)
               /\ ret'.value = "True"
               /\ \A i \in 1..Len(ledger.records) :
                     LET old == ledger.records[i]
                         new == ledger'.records[i]
                     IN  IF old.generation_id # gid THEN new = old
                         ELSE /\ \A f \in DOMAIN old \ {"updated_at"} :
                                    new[f] = IF f \in DOMAIN kwargs THEN kwargs[f]
                                             ELSE old[f]
                              /\ new.created_at = old.created_at
                              /\ new.updated_at = now
                              /\ new.updated_at > old.updated_at
       /\ \A p \in Paths, gid \in 1..MaxIds, url \in Urls,
             status \in {"completed", "failed"} :
            (/\ AddGenerationRecord(p, gid, url, status, TRUE, TRUE, "ok")
             /\ gid \notin IdsOf(load_records(ledger, TRUE)))
            => /\ ledger'.state = "valid"
               /\ ret'.value = "True"
               /\ Len(ledger'.records) = Len(load_records(ledger, TRUE)) + 1
               /\ SubSeq(ledger'.records, 1, Len(ledger'.records) - 1)
                     = load_records(ledger, TRUE)
               /\ LET new == ledger'.records[Len(ledger'.records)]
                  IN  /\ new.generation_id = gid /\ new.gamma_url = url
                      /\ new.file_path = Resolve(p) /\ new.status = status
                      /\ new.created_at = now /\ new.updated_at = now]_vars

C20_Witness ==
    /\ ret.fn = "update_generation_record" /\ ret.value = "True"
    /\ Len(ledger.records) = 2
    /\ \E i \in 1..2 :
          /\ ledger.records[i].pdf_downloaded = "true"
          /\ ledger.records[i].pdf_path # ""
          /\ ledger.records[i].gamma_url # ""
          /\ ledger.records[i].updated_at > ledger.records[i].created_at

C22_NoExceptionPropagates ==
    cfg.key => (/\ ~w.raised
                /\ ret.fn = "process_file" => ret.value \in {"True", "False"})

\* C23 (Spec): a status poll is issued only for a generation id that
\* generate_presentation returned, and download_pdf runs, so an export request
\* is made, only for a job that some status poll, of this run or of an earlier
\* one, observed as completed.
C23_SubmitPollExport ==
    /\ [][w'.polls > w.polls => (w.gid >= 1 /\ w.gid < NextJobId /\ w.gid = run.gid)]_vars
    /\ [](pc \in {"api", "api_done", "browser", "dl_done"} => d.gid \in completedSeen)
    /\ [][d'.requested # d.requested => d.gid \in completedSeen]_vars

C23_Witness ==
    /\ run.reuse /\ pc = "api" /\ Len(d.requested) = 1
    /\ d.gid \in completedSeen /\ w = NoWait /\ runs = 2

\* C24 (Spec): every record process_file writes has status completed, a
\* non-empty gamma_url and the id of a job a poll observed as completed; a
\* record is created only by the step that follows a successful
\* wait_for_completion, with the payload's gammaUrl, else its url, as
\* gamma_url; when the job timed out, failed or completed without gammaUrl and
\* url, the ledger is unchanged.
C24_RecordAfterSuccess ==
    /\ [](\A i \in 1..Len(ledger.records) :
            /\ ledger.records[i].status = "completed"
            /\ ledger.records[i].gamma_url # ""
            /\ ledger.records[i].generation_id \in completedSeen)
    /\ [][\A i \in 1..Len(ledger'.records) :
            ledger'.records[i].generation_id \notin IdsOf(ledger.records)
            => /\ pc = "w_done" /\ w.success /\ w.status = "completed"
               /\ ledger'.records[i].generation_id = w.gid
               /\ ledger'.records[i].gamma_url =
                     IF w.result.gammaUrl # "" THEN w.result.gammaUrl ELSE w.result.url]_vars
    /\ [][(pc = "w_done" /\ (~w.success \/ (w.result.gammaUrl = "" /\ w.result.url = "")))
           => (ledger' = ledger /\ pc' = "idle")]_vars

C24_Witness ==
    /\ pc = "api" /\ ~run.reuse /\ Len(ledger.records) = 1
    /\ ledger.records[1].generation_id = run.gid
    /\ ledger.records[1].gamma_url = UrlNoDoc
    /\ ledger.records[1].status = "completed"

\* C25 (Spec): generate_presentation returns a generation id exactly for an
\* answer with status 200 or 201 whose body holds a generationId, with the API
\* key set; without the key it fails and no job reaches the service; after any
\* other status or a body without generationId process_file polls nothing,
\* exports nothing, leaves the ledger unchanged and returns False.
C25_SubmitFailure ==
    [][\A resp \in SubmitResponses, script \in RunScripts :
          Submit(resp, script) =>
            /\ (pc' = "w_loop" /\ jobs' # jobs)
                 <=> (cfg.key /\ resp.kind = "http" /\ resp.code \in {200, 201} /\ resp.hasId)
            /\ ~cfg.key => (jobs' = jobs /\ pc' = "idle" /\ ret'.value = "raised")
            /\ (cfg.key /\ resp.kind = "http" /\ (resp.code \notin {200, 201} \/ ~resp.hasId))
                 => (/\ pc' = "idle" /\ ret'.value = "False"
                     /\ ledger' = ledger /\ jobs' = jobs
                     /\ w' = NoWait /\ a' = NoApi /\ d' = NoDl
                     /\ completedSeen' = completedSeen /\ outputs' = outputs)]_vars

C25_Witness ==
    /\ pc = "idle" /\ cfg.key /\ runs = 1
    /\ ret.fn = "process_file" /\ ret.value = "False"
    /\ submitCalls["X"] = 1 /\ jobs["X"] = 0
    /\ ledger.state = "absent"

(***************************************************************************)
(* C28: process_file returns True only if the artifact is at the expected  *)
(* output path when it returns, and returns False whenever the export      *)
(* chain it ran (download_pdf) failed, on the fresh and on the reuse path. *)
(***************************************************************************)
C28_TrueMeansArtifact ==
    /\ [][\A p \in Paths \cup {MissingPath}, force \in BOOLEAN, hashOK \in BOOLEAN,
             readOK \in BOOLEAN :
             (Begin(p, force, hashOK, readOK) /\ pc' = "idle" /\ ret'.value = "True")
                => (OutputPathOf(p) \in outputs')]_vars
    /\ [][\A readOK \in BOOLEAN, outcome \in SaveOutcomes :
             Finish(readOK, outcome) =>
                /\ ~d.ret => ret'.value = "False"
                /\ ret'.value = "True" => OutputPathOf(run.path) \in outputs']_vars

(***************************************************************************)
(* C26: once Chrome was started, download_via_browser has called           *)
(* driver.quit when it returns, after a download, a timeout or an          *)
(* exception, headless or visible; the one exception is the visible mode   *)
(* with the download not obtained.                                         *)
(***************************************************************************)
C26_DriverReleased ==
    (pc = "returned" /\ b.started /\ (b.headless \/ b.success)) => b.quit

(***************************************************************************)
(* C27: the file the browser strategy renames into output_path has the     *)
(* expected extension and was created during this call; a file that was in *)
(* the download directory before the call is never renamed into            *)
(* output_path and never makes the call report success.                    *)
(***************************************************************************)
C27_AdoptsOnlyNewFiles ==
    /\ b.adopted # "" => /\ ExtOf(b.adopted) = b.fmt
                         /\ ~b.dir[TargetOf(b.fmt)].pre
    /\ b.success => ~b.dir[TargetOf(b.fmt)].pre

(***************************************************************************)
(* C29: the download-detection loop of download_via_browser terminates:    *)
(* it makes at most max_wait / 2 = 60 checks of the directory, and when no *)
(* completed file was detected by then the call returns (False, None).     *)
(***************************************************************************)
C29_State ==
    /\ BROWSER_MAX_WAIT \div LOOP_SLEEP = 60
    /\ b.checks <= BROWSER_MAX_WAIT \div LOOP_SLEEP
    /\ b.timedOut => /\ b.checks = BROWSER_MAX_WAIT \div LOOP_SLEEP
                     /\ ~b.success
                     /\ b.adopted = ""
                     /\ pc \in {"b_finally", "returned"}
    /\ (pc = "returned" /\ b.timedOut) => ret.value = "(False, None)"

C29_LoopTerminates ==
    /\ []C29_State
    /\ (pc = "b_loop") ~> (pc = "returned")

C29_Witness ==
    /\ pc = "returned"
    /\ b.started
    /\ b.timedOut
    /\ b.checks = 60
    /\ ret.fn = "download_via_browser"
    /\ ret.value = "(False, None)"

====
